---------------------------- MODULE Spec2Model ----------------------------
(***************************************************************************)
(* Ichimoku Tenkan-Kijun gap scanner (src/app.py, src/main.py).            *)
(*                                                                         *)
(* Floats are modelled as exact rationals plus NaN: a value is a record    *)
(* [nan, n, d] with d > 0 and n/d in lowest terms, so that = on records is *)
(* numeric equality.  Infinities and binary rounding error are not         *)
(* modelled.  A raised exception is a record field `raised` naming it.     *)
(***************************************************************************)
EXTENDS Integers, Sequences, FiniteSets, TLC

VARIABLES
    pc,        \* position of the running entry point
    entry,     \* "web" (app.py api_scan), "cli" (main.py main), "" before
    request,   \* the request body, the configuration the scan runs with, and
               \* the exception the universe fetch logged ("" when none)
    symbols,   \* run_scan / main: symbols
    idx,       \* number of loop iterations completed
    results,   \* run_scan / main: results
    log,       \* per scan_symbol call: what was fetched, returned and logged
    response,  \* api_scan's HTTP response, or main's CSV
    history,   \* the scan_history directory: set of [id, scan]
    clock,     \* wall clock in seconds, as datetime.now() last read it
    call,      \* arguments of a function under test
    ret        \* what it returned

vars == <<pc, entry, request, symbols, idx, results, log, response, history, clock, call, ret>>

---------------------------------------------------------------------------
(* Program constants                                                       *)

MIN_GAP_PCT == 3
\* PRICE_NEAR_TENKAN_PCT = 0.4, as a fraction
PRICE_NEAR_TENKAN_NUM == 4
PRICE_NEAR_TENKAN_DEN == 10
TENKAN_PERIOD == 9
KIJUN_PERIOD == 26
MIN_DATA_POINTS == 30
MAX_HISTORY == 3
TIMEFRAME_OPTIONS == {"30m", "1h", "4h", "1d"}
TIMEFRAME == "1h"

---------------------------------------------------------------------------
(* Float arithmetic                                                        *)

Abs(i) == IF i < 0 THEN -i ELSE i

RECURSIVE Gcd(_, _)
Gcd(a, b) == IF b = 0 THEN a ELSE Gcd(b, a % b)

NaN == [nan |-> TRUE, n |-> 0, d |-> 1]

\* The float n/d (d # 0), sign on the numerator, lowest terms.
Rat(n, d) ==
    LET g == Gcd(Abs(n), Abs(d))
        s == IF d < 0 THEN -1 ELSE 1
    IN  [nan |-> FALSE, n |-> s * (n \div g), d |-> s * (d \div g)]

Num(i) == [nan |-> FALSE, n |-> i, d |-> 1]

IsNaN(a) == a.nan
IsZero(a) == ~a.nan /\ a.n = 0

FAdd(a, b) == IF a.nan \/ b.nan THEN NaN ELSE Rat(a.n * b.d + b.n * a.d, a.d * b.d)
FSub(a, b) == IF a.nan \/ b.nan THEN NaN ELSE Rat(a.n * b.d - b.n * a.d, a.d * b.d)
FMul(a, b) == IF a.nan \/ b.nan THEN NaN ELSE Rat(a.n * b.n, a.d * b.d)
\* a / b for b # 0 (Python raises ZeroDivisionError before this is reached)
FDiv(a, b) == IF a.nan \/ b.nan THEN NaN ELSE Rat(a.n * b.d, a.d * b.n)
FAbs(a)    == IF a.nan THEN NaN ELSE Rat(Abs(a.n), a.d)

\* Comparisons: every comparison with NaN is false.
FLt(a, b) == ~a.nan /\ ~b.nan /\ a.n * b.d < b.n * a.d
FGt(a, b) == FLt(b, a)
FLe(a, b) == ~a.nan /\ ~b.nan /\ a.n * b.d <= b.n * a.d
FGe(a, b) == FLe(b, a)

\* round(x, 2): to the nearest hundredth, ties to even.
Round2(a) ==
    IF a.nan THEN NaN
    ELSE LET q == (a.n * 100) \div a.d
             r == (a.n * 100) - q * a.d
             k == IF 2 * r < a.d THEN q
                  ELSE IF 2 * r > a.d THEN q + 1
                  ELSE IF q % 2 = 0 THEN q ELSE q + 1
         IN  Rat(k, 100)

---------------------------------------------------------------------------
(* Indicator engine: calculate_ichimoku                                    *)

\* Series.rolling(window).max() / .min(): NaN until `window` observations
\* are in the window, and NaN when any of them is NaN (min_periods = window).
RECURSIVE FoldMax(_, _, _)
FoldMax(s, lo, hi) ==
    IF lo = hi THEN s[lo]
    ELSE LET m == FoldMax(s, lo + 1, hi)
         IN  IF s[lo].nan \/ m.nan THEN NaN ELSE IF FGt(s[lo], m) THEN s[lo] ELSE m

RECURSIVE FoldMin(_, _, _)
FoldMin(s, lo, hi) ==
    IF lo = hi THEN s[lo]
    ELSE LET m == FoldMin(s, lo + 1, hi)
         IN  IF s[lo].nan \/ m.nan THEN NaN ELSE IF FLt(s[lo], m) THEN s[lo] ELSE m

\* A variant whose window grows from the first bar instead of sliding.
RollingMaxExpanding(s, window) ==
    [i \in 1..Len(s) |-> IF i < window THEN NaN ELSE FoldMax(s, 1, i)]

RollingMax(s, window) ==
    [i \in 1..Len(s) |-> IF i < window THEN NaN ELSE FoldMax(s, i - window + 1, i)]

RollingMin(s, window) ==
    [i \in 1..Len(s) |-> IF i < window THEN NaN ELSE FoldMin(s, i - window + 1, i)]

Column(dataframe, name) == [i \in 1..Len(dataframe.bars) |-> dataframe.bars[i][name]]

Midline(dataframe, window) ==
    LET hi == RollingMax(Column(dataframe, "High"), window)
        lo == RollingMin(Column(dataframe, "Low"), window)
    IN  [i \in 1..Len(dataframe.bars) |-> FDiv(FAdd(hi[i], lo[i]), Num(2))]

calculate_ichimoku(dataframe, tenkan_period, kijun_period) ==
    IF "High" \notin dataframe.cols \/ "Low" \notin dataframe.cols
    THEN [raised |-> "ValueError", tenkan_sen |-> <<>>, kijun_sen |-> <<>>]
    ELSE [raised |-> "",
          tenkan_sen |-> Midline(dataframe, tenkan_period),
          kijun_sen |-> Midline(dataframe, kijun_period)]

---------------------------------------------------------------------------
(* Signal evaluator: calculate_signal_metrics                              *)

\* A variant with >= in the first test.
DirectionGe(tenkan_value, kijun_value) ==
    IF FGe(tenkan_value, kijun_value) THEN "Bullish"
    ELSE IF FLt(tenkan_value, kijun_value) THEN "Bearish"
    ELSE "Neutral"

Direction(tenkan_value, kijun_value) ==
    IF FGt(tenkan_value, kijun_value) THEN "Bullish"
    ELSE IF FLt(tenkan_value, kijun_value) THEN "Bearish"
    ELSE "Neutral"

\* A variant without abs().
GapPercentageSigned(tenkan_value, kijun_value) ==
    FMul(FDiv(FSub(tenkan_value, kijun_value), kijun_value), Num(100))

GapPercentage(tenkan_value, kijun_value) ==
    FMul(FDiv(FAbs(FSub(tenkan_value, kijun_value)), kijun_value), Num(100))

DistanceFromTenkanPct(close_price, tenkan_value) ==
    FMul(FDiv(FAbs(FSub(close_price, tenkan_value)), close_price), Num(100))

Raise(name) ==
    [raised |-> name, gap_percentage |-> NaN, distance_from_tenkan_pct |-> NaN,
     signal_direction |-> ""]

\* A variant that answers 0 for a zero denominator instead of raising.
calculate_signal_metrics_guarded(close_price, tenkan_value, kijun_value) ==
    [raised |-> "",
     gap_percentage |-> IF IsZero(kijun_value) THEN Num(0)
                        ELSE GapPercentage(tenkan_value, kijun_value),
     distance_from_tenkan_pct |-> IF IsZero(close_price) THEN Num(0)
                                  ELSE DistanceFromTenkanPct(close_price, tenkan_value),
     signal_direction |-> Direction(tenkan_value, kijun_value)]

calculate_signal_metrics(close_price, tenkan_value, kijun_value) ==
    IF IsZero(kijun_value) THEN Raise("ZeroDivisionError")
    ELSE IF IsZero(close_price) THEN Raise("ZeroDivisionError")
    ELSE [raised |-> "",
          gap_percentage |-> GapPercentage(tenkan_value, kijun_value),
          distance_from_tenkan_pct |-> DistanceFromTenkanPct(close_price, tenkan_value),
          signal_direction |-> Direction(tenkan_value, kijun_value)]

---------------------------------------------------------------------------
(* Price-data fetch: what yf.download hands to scan_symbol                 *)

AllColumns == {"Open", "High", "Low", "Close", "Volume"}

Bar(high, low, close) == [High |-> high, Low |-> low, Close |-> close]

\* A fetch is described by a small record; Download builds the dataframe.
\* A frame of `len` bars: the last TENKAN_PERIOD bars trade between rl and rh
\* and close at `close`, the bars before them between ol and oh.
FetchError == [kind |-> "raise", len |-> 0, oh |-> NaN, ol |-> NaN, rh |-> NaN,
               rl |-> NaN, close |-> NaN, cols |-> {}]

FrameOf(len, oh, ol, rh, rl, close, cols) ==
    [kind |-> "frame", len |-> len, oh |-> oh, ol |-> ol, rh |-> rh, rl |-> rl,
     close |-> close, cols |-> cols]

Download(fetch) ==
    IF fetch.kind = "raise"
    THEN [raised |-> "FetchError", cols |-> {}, bars |-> <<>>]
    ELSE [raised |-> "",
          cols |-> fetch.cols,
          bars |-> [i \in 1..fetch.len |->
                      IF i <= fetch.len - TENKAN_PERIOD
                      THEN Bar(fetch.oh, fetch.ol, fetch.ol)
                      ELSE Bar(fetch.rh, fetch.rl, fetch.close)]]

---------------------------------------------------------------------------
(* Symbol scanner: scan_symbol                                             *)

None == <<>>

PRICE_NEAR_TENKAN_PCT == Rat(PRICE_NEAR_TENKAN_NUM, PRICE_NEAR_TENKAN_DEN)

\* The threshold test of scan_symbol.
MeetsCriteriaOr(gap_pct, distance_from_tenkan_pct, min_gap) ==
    FGe(gap_pct, min_gap) \/ FLe(distance_from_tenkan_pct, PRICE_NEAR_TENKAN_PCT)

\* A variant that tests the proximity only.
MeetsCriteriaProximityOnly(gap_pct, distance_from_tenkan_pct, min_gap) ==
    FLe(distance_from_tenkan_pct, PRICE_NEAR_TENKAN_PCT)

MeetsCriteria(gap_pct, distance_from_tenkan_pct, min_gap) ==
    FGe(gap_pct, min_gap) /\ FLe(distance_from_tenkan_pct, PRICE_NEAR_TENKAN_PCT)

\* The list scan_symbol returns for a match.
MatchRow(symbol, close_price, tenkan_value, kijun_value, gap_pct, signal_direction) ==
    <<symbol, Round2(close_price), Round2(tenkan_value), Round2(kijun_value),
      Round2(gap_pct), signal_direction>>

\* except Exception: log the error, return None.
ExceptReturnRow(symbol, error) ==
    [ret |-> <<symbol, NaN, NaN, NaN, NaN, error>>, error |-> error, evaluated |-> FALSE]

ExceptReturn(symbol, error) == [ret |-> None, error |-> error, evaluated |-> FALSE]

\* return None before the threshold test was reached.
NoMatch == [ret |-> None, error |-> "", evaluated |-> FALSE]

\* return None after the threshold test failed.
BelowThreshold == [ret |-> None, error |-> "", evaluated |-> TRUE]

\* A variant of the length test that asks for one slow window of bars only.
InsufficientDataKijun(dataframe) == Len(dataframe.bars) < KIJUN_PERIOD

\* if len(dataframe) < MIN_DATA_POINTS
InsufficientData(dataframe) == Len(dataframe.bars) < MIN_DATA_POINTS

\* scan_symbol with what it did: ret is the returned list or None, error the
\* exception its handler caught ("" when none was raised), evaluated whether
\* the threshold test was reached.
ScanOutcome(symbol, dataframe, min_gap) ==
    IF dataframe.raised # "" THEN ExceptReturn(symbol, dataframe.raised)
    ELSE IF InsufficientData(dataframe) THEN NoMatch
    ELSE
    LET ich == calculate_ichimoku(dataframe, TENKAN_PERIOD, KIJUN_PERIOD)
        last == Len(dataframe.bars)
    IN  IF ich.raised # "" THEN ExceptReturn(symbol, ich.raised)
        ELSE IF "Close" \notin dataframe.cols THEN ExceptReturn(symbol, "KeyError")
        ELSE
        LET close_price == dataframe.bars[last].Close
            tenkan_value == ich.tenkan_sen[last]
            kijun_value == ich.kijun_sen[last]
        IN  IF IsNaN(tenkan_value) \/ IsNaN(kijun_value) \/ IsNaN(close_price)
            THEN NoMatch
            ELSE
            LET m == calculate_signal_metrics(close_price, tenkan_value, kijun_value)
            IN  IF m.raised # "" THEN ExceptReturn(symbol, m.raised)
                ELSE IF MeetsCriteria(m.gap_percentage, m.distance_from_tenkan_pct, min_gap)
                THEN [ret |-> MatchRow(symbol, close_price, tenkan_value, kijun_value,
                                       m.gap_percentage, m.signal_direction),
                      error |-> "", evaluated |-> TRUE]
                ELSE BelowThreshold

scan_symbol(symbol, dataframe, min_gap) == ScanOutcome(symbol, dataframe, min_gap).ret

---------------------------------------------------------------------------
(* Symbol universe: get_nifty_500_symbols                                  *)

AppFallback ==
    << "RELIANCE.NS", "TCS.NS", "INFY.NS", "HDFCBANK.NS", "ICICIBANK.NS",
       "SBIN.NS", "LT.NS", "AXISBANK.NS", "BAJFINANCE.NS", "BAJAJFINSV.NS" >>

MainFallback ==
    << "^NSEI", "^NSEBANK", "RELIANCE.NS", "TCS.NS", "INFY.NS", "HDFCBANK.NS",
       "ICICIBANK.NS", "SBIN.NS", "LT.NS", "AXISBANK.NS", "BAJFINANCE.NS" >>

\* str.upper() on the names the index service is modelled to send.
Upper(name) == IF name = "nifty 500" THEN "NIFTY 500" ELSE name

Stock(name) == [keys |-> {"symbol"}, symbol |-> name]

\* The list comprehension over data['data']; a stock without 'symbol' raises.
RECURSIVE Constituents(_)
Constituents(data) ==
    IF data = <<>> THEN [raised |-> "", symbols |-> <<>>]
    ELSE LET stock == Head(data)
             rest == Constituents(Tail(data))
         IN  IF "symbol" \notin stock.keys \/ rest.raised # ""
             THEN [raised |-> "KeyError", symbols |-> <<>>]
             ELSE IF Upper(stock.symbol) \in {"NIFTY 500", "NIFTY"}
             THEN rest
             ELSE [raised |-> "", symbols |-> <<stock.symbol \o ".NS">> \o rest.symbols]

\* A variant whose handler returns no symbols.
UniverseOrEmpty(reply, fallback) ==
    IF reply.raised # "" \/ "data" \notin reply.keys \/ Constituents(reply.data).raised # ""
    THEN <<>>
    ELSE Constituents(reply.data).symbols

\* The exception get_nifty_500_symbols catches and logs, "" when none.
UniverseError(reply) ==
    IF reply.raised # "" THEN reply.raised
    ELSE IF "data" \notin reply.keys THEN "ValueError"
    ELSE Constituents(reply.data).raised

\* `reply` is what requests.get / raise_for_status / response.json() gave:
\* an exception, or the decoded JSON object.
get_nifty_500_symbols(reply, fallback) ==
    IF reply.raised # "" THEN fallback
    ELSE IF "data" \notin reply.keys THEN fallback
    ELSE LET c == Constituents(reply.data)
         IN  IF c.raised # "" THEN fallback ELSE c.symbols

---------------------------------------------------------------------------
(* Batch runner: run_scan (app.py) and main (main.py)                      *)

\* for idx, symbol in enumerate(symbols): another iteration follows.
HasNextButLast(i, syms) == i < Len(syms) - 1

HasNext(i, syms) == i < Len(syms)

\* `if result:` -- a non-empty list is truthy, None is not.
Truthy(result) == result # None

GapOf(row) == row[5]

\* A variant: stable ascending sort, then reversed (ties come out reversed).
RECURSIVE SortAscThenReverse(_)
SortAscThenReverse(rows) ==
    IF rows = <<>> THEN <<>>
    ELSE LET row == Head(rows)
             sorted == SortAscThenReverse(Tail(rows))
         IN  SelectSeq(sorted, LAMBDA r : FGe(GapOf(r), GapOf(row)))
             \o <<row>>
             \o SelectSeq(sorted, LAMBDA r : FLt(GapOf(r), GapOf(row)))

\* results.sort(key=lambda x: x[4], reverse=True): stable, descending.
\* Rows are inserted from the last to the first, each in front of the rows
\* already placed whose key is not larger.
RECURSIVE SortByGapDesc(_)
SortByGapDesc(rows) ==
    IF rows = <<>> THEN <<>>
    ELSE LET row == Head(rows)
             sorted == SortByGapDesc(Tail(rows))
         IN  SelectSeq(sorted, LAMBDA r : FGt(GapOf(r), GapOf(row)))
             \o <<row>>
             \o SelectSeq(sorted, LAMBDA r : FLe(GapOf(r), GapOf(row)))

ScanReport(timeframe, min_gap, now, syms, sorted) ==
    [timeframe |-> timeframe,
     min_gap |-> min_gap,
     scan_time |-> now,
     symbols_scanned |-> Len(syms),
     matches_found |-> Len(sorted),
     results |-> sorted]

---------------------------------------------------------------------------
(* History store: save_scan_history                                        *)

NoId == -1

\* sorted(glob("scan_*.json"))[:-MAX_HISTORY] are unlinked: the MAX_HISTORY
\* files with the largest timestamps stay.
KeepLast(store) ==
    {e \in store : Cardinality({o \in store : o.id > e.id}) < MAX_HISTORY}

\* The file scan_<timestamp>.json is written (replacing a file of the same
\* second), then the directory is pruned.  `writable` is whether open() and
\* json.dump succeed; when they raise, the handler returns None.
save_scan_history(store, scan_result, timestamp, writable) ==
    IF writable
    THEN [store |-> KeepLast({e \in store : e.id # timestamp}
                             \cup {[id |-> timestamp, scan |-> scan_result]}),
          id |-> timestamp]
    ELSE [store |-> store, id |-> NoId]

---------------------------------------------------------------------------
(* HTTP front end: api_scan                                                *)

\* float() on the strings the model sends.
ParseFloat(text) ==
    IF text = "nan" THEN [raised |-> "", value |-> NaN]
    ELSE [raised |-> "ValueError", value |-> NaN]

\* float(data.get('min_gap', MIN_GAP_PCT))
MinGapOf(raw) ==
    IF raw.kind = "absent" THEN [raised |-> "", value |-> Num(MIN_GAP_PCT)]
    ELSE IF raw.kind = "number" THEN [raised |-> "", value |-> raw.value]
    ELSE IF raw.kind = "text" THEN ParseFloat(raw.text)
    ELSE [raised |-> "TypeError", value |-> NaN]

\* data.get('timeframe', '1h')
TimeframeOf(raw) == IF raw = "absent" THEN "1h" ELSE raw

ErrorResponse(status, message) == [status |-> status, error |-> message, body |-> <<>>]

MinGapOutOfRange(min_gap) == FLt(min_gap, Num(0)) \/ FGt(min_gap, Num(100))

\* What api_scan answers before run_scan is called: an error response, or
\* status 0 with the validated configuration when the scan may start.
Validate(body) ==
    IF body.kind # "object" THEN ErrorResponse(500, "AttributeError")
    ELSE LET timeframe == TimeframeOf(body.timeframe)
             min_gap == MinGapOf(body.min_gap)
         IN  IF min_gap.raised = "ValueError"
             THEN ErrorResponse(400, "Invalid minimum gap value")
             ELSE IF min_gap.raised # "" THEN ErrorResponse(500, min_gap.raised)
             ELSE IF timeframe \notin TIMEFRAME_OPTIONS
             THEN ErrorResponse(400, "Invalid timeframe")
             ELSE IF MinGapOutOfRange(min_gap.value)
             THEN ErrorResponse(400, "Minimum gap must be between 0 and 100")
             ELSE [status |-> 0, error |-> "",
                   body |-> [timeframe |-> timeframe, min_gap |-> min_gap.value]]

---------------------------------------------------------------------------
(* The environment of one run                                              *)

\* Longest constituent list the index service returns.
MaxSymbols == 3

\* Request bodies.
Number(v) == [kind |-> "number", text |-> "", value |-> v]
Text(t) == [kind |-> "text", text |-> t, value |-> NaN]

RawMinGaps ==
    { [kind |-> "absent", text |-> "", value |-> NaN],
      [kind |-> "null", text |-> "", value |-> NaN],
      Number(Num(0)), Number(Num(100)), Number(Num(-1)), Number(Num(101)),
      Text("nan"), Text("abc") }

\* Every min_gap with the default timeframe, every timeframe with the default
\* min_gap, both invalid together, and a request without a JSON object.
Bodies ==
    { [kind |-> "none", timeframe |-> "absent", min_gap |-> Number(Num(0))] } \cup
    [kind : {"object"}, timeframe : {"absent"}, min_gap : RawMinGaps] \cup
    [kind : {"object"}, timeframe : {"1d", "5m"},
     min_gap : {[kind |-> "absent", text |-> "", value |-> NaN], Text("abc")}]

\* Replies of the index service.
RECURSIVE SeqsUpTo(_, _)
SeqsUpTo(S, n) ==
    IF n = 0 THEN {<<>>}
    ELSE LET shorter == SeqsUpTo(S, n - 1)
         IN  shorter \cup {Append(q, x) : q \in {t \in shorter : Len(t) = n - 1}, x \in S}

Failure(name) == [raised |-> name, keys |-> {}, data |-> <<>>]

Replies ==
    { Failure("ConnectionError"), Failure("HTTPError"), Failure("JSONDecodeError"),
      [raised |-> "", keys |-> {"msg"}, data |-> <<>>],
      [raised |-> "", keys |-> {"data"}, data |-> <<Stock("A"), [keys |-> {}, symbol |-> ""]>>],
      [raised |-> "", keys |-> {"data"}, data |-> <<Stock("nifty 500"), Stock("B")>>] }
    \cup
    { [raised |-> "", keys |-> {"name", "data"}, data |-> d] :
        d \in SeqsUpTo({Stock("NIFTY 500"), Stock("A"), Stock("B")}, MaxSymbols) }

\* What a fetch of each symbol can bring.
Flat == FrameOf(MIN_DATA_POINTS, Num(1000), Num(1000), Num(1000), Num(1000), Num(1005), AllColumns)
Bull526 == FrameOf(MIN_DATA_POINTS, Num(1000), Num(900), Num(1000), Num(1000), Num(1000), AllColumns)
Bull5264 == FrameOf(MIN_DATA_POINTS, Num(1000), Rat(89998, 100), Num(1000), Num(1000), Num(1000), AllColumns)
Bull309 == FrameOf(MIN_DATA_POINTS, Num(1000), Num(940), Num(1000), Num(1000), Num(1004), AllColumns)
Bear476 == FrameOf(MIN_DATA_POINTS + 1, Num(1100), Num(1000), Num(1000), Num(1000), Num(1000), AllColumns)
Neutral0 == FrameOf(MIN_DATA_POINTS, Num(1000), Num(1000), Num(1000), Num(1000), Num(1000), AllColumns)
Kijun0 == FrameOf(MIN_DATA_POINTS, Num(1000), Num(-1000), Num(1000), Num(1000), Num(1000), AllColumns)
Close0 == FrameOf(MIN_DATA_POINTS, Num(1000), Num(900), Num(1000), Num(1000), Num(0), AllColumns)
Short == FrameOf(MIN_DATA_POINTS - 1, Num(1000), Num(900), Num(1000), Num(1000), Num(1000), AllColumns)
Holes == FrameOf(MIN_DATA_POINTS, Num(1000), Num(900), NaN, Num(1000), Num(1000), AllColumns)
NoHigh == FrameOf(MIN_DATA_POINTS, Num(1000), Num(900), Num(1000), Num(1000), Num(1000), AllColumns \ {"High"})

Market(symbol) ==
    IF symbol = "A.NS" THEN {FetchError, Bull526, Bear476, Kijun0}
    ELSE IF symbol = "B.NS" THEN {Bull526, Bull5264, Neutral0, Close0, Holes}
    ELSE IF symbol \in {"RELIANCE.NS", "^NSEI"} THEN {FetchError, Bull526}
    ELSE IF symbol = "TCS.NS" THEN {Short, Bull309, NoHigh}
    ELSE {Flat}

\* scan_symbol for every fetch of the environment, evaluated once.
Configurations ==
    {Validate(body).body.min_gap : body \in {b \in Bodies : Validate(b).status = 0}}
    \cup {Num(MIN_GAP_PCT)}

Universe ==
    {"A.NS", "B.NS"} \cup {AppFallback[i] : i \in DOMAIN AppFallback}
    \cup {MainFallback[i] : i \in DOMAIN MainFallback}

ScanTable ==
    LET calls == {<<symbol, fetch, min_gap>> :
                    symbol \in Universe, fetch \in UNION {Market(y) : y \in Universe},
                    min_gap \in Configurations}
        table == [c \in calls |-> ScanOutcome(c[1], Download(c[2]), c[3])]
    IN  IF table = table THEN table ELSE table

---------------------------------------------------------------------------
(* One run of an entry point                                               *)

NoResponse == [status |-> 0, error |-> "", body |-> <<>>]

\* A scan an earlier run left in the scan_history directory.
OldScan(timestamp) ==
    [id |-> timestamp,
     scan |-> [timeframe |-> "1h", min_gap |-> Num(MIN_GAP_PCT), scan_time |-> timestamp,
               symbols_scanned |-> 0, matches_found |-> 0, results |-> <<>>,
               id |-> timestamp]]

InitialStores == { {}, {OldScan(t) : t \in 1..MAX_HISTORY} }

NoBody == [kind |-> "none", timeframe |-> "absent", min_gap |-> Number(Num(0))]

\* The directory is empty, or holds MAX_HISTORY scans, the last one written
\* in the current second.
Init ==
    /\ pc = "idle"
    /\ entry = ""
    /\ request = [body |-> NoBody, timeframe |-> "", min_gap |-> NaN, universe_error |-> ""]
    /\ symbols = <<>>
    /\ idx = 0
    /\ results = <<>>
    /\ log = <<>>
    /\ response = NoResponse
    /\ history \in InitialStores
    /\ clock = Cardinality(history)
    /\ call = <<>>
    /\ ret = <<>>

\* POST /api/scan with an invalid configuration: answered without a scan.
ApiScanReject ==
    /\ pc = "idle"
    /\ \E body \in Bodies :
          /\ Validate(body).status # 0
          /\ response' = Validate(body)
          /\ request' = [request EXCEPT !.body = body]
    /\ entry' = "web"
    /\ pc' = "done"
    /\ UNCHANGED <<symbols, idx, results, log, history, clock, call, ret>>

\* POST /api/scan with a valid configuration: run_scan starts and fetches
\* the universe.
ApiScanStart ==
    /\ pc = "idle"
    /\ \E body \in Bodies, reply \in Replies :
          /\ Validate(body).status = 0
          /\ request' = [body |-> body,
                         timeframe |-> Validate(body).body.timeframe,
                         min_gap |-> Validate(body).body.min_gap,
                         universe_error |-> UniverseError(reply)]
          /\ symbols' = get_nifty_500_symbols(reply, AppFallback)
    /\ entry' = "web"
    /\ idx' = 0
    /\ results' = <<>>
    /\ log' = <<>>
    /\ pc' = "scanning"
    /\ UNCHANGED <<response, history, clock, call, ret>>

\* python main.py: main fetches the universe; the thresholds are the module
\* constants.
MainStart ==
    /\ pc = "idle"
    /\ \E reply \in Replies :
          /\ symbols' = get_nifty_500_symbols(reply, MainFallback)
          /\ request' = [body |-> NoBody, timeframe |-> TIMEFRAME,
                         min_gap |-> Num(MIN_GAP_PCT),
                         universe_error |-> UniverseError(reply)]
    /\ entry' = "cli"
    /\ idx' = 0
    /\ results' = <<>>
    /\ log' = <<>>
    /\ pc' = "scanning"
    /\ UNCHANGED <<response, history, clock, call, ret>>

\* One iteration of the loop over symbols (run_scan and main alike): fetch,
\* scan_symbol, append a truthy result.
ScanNext ==
    /\ pc = "scanning"
    /\ HasNext(idx, symbols)
    /\ LET symbol == symbols[idx + 1]
       IN  \E fetch \in Market(symbol) :
              LET out == ScanTable[<<symbol, fetch, request.min_gap>>]
              IN  /\ results' = IF Truthy(out.ret) THEN Append(results, out.ret) ELSE results
                  /\ log' = Append(log, [symbol |-> symbol, fetch |-> fetch,
                                         ret |-> out.ret, error |-> out.error])
    /\ idx' = idx + 1
    /\ UNCHANGED <<pc, entry, request, symbols, response, history, clock, call, ret>>

\* The loop is over: run_scan sorts and builds the report, api_scan saves it
\* to the history and answers with it.  The clock is read once.
ApiScanFinish ==
    /\ pc = "scanning"
    /\ entry = "web"
    /\ ~HasNext(idx, symbols)
    /\ \E now \in {clock, clock + 1}, writable \in BOOLEAN :
          LET sorted == SortByGapDesc(results)
              scan_result == ScanReport(request.timeframe, request.min_gap, now, symbols, sorted)
              stored == [timeframe |-> scan_result.timeframe,
                         min_gap |-> scan_result.min_gap,
                         scan_time |-> scan_result.scan_time,
                         symbols_scanned |-> scan_result.symbols_scanned,
                         matches_found |-> scan_result.matches_found,
                         results |-> scan_result.results,
                         id |-> now]
              saved == save_scan_history(history, stored, now, writable)
          IN  /\ results' = sorted
              /\ history' = saved.store
              /\ clock' = now
              /\ response' = [status |-> 200, error |-> "",
                              body |-> [scan |-> IF writable THEN stored ELSE
                                                   [stored EXCEPT !.id = NoId],
                                        history_id |-> saved.id]]
    /\ pc' = "done"
    /\ UNCHANGED <<entry, request, symbols, idx, log, call, ret>>

\* The loop is over: main sorts and writes the CSV.
MainFinish ==
    /\ pc = "scanning"
    /\ entry = "cli"
    /\ ~HasNext(idx, symbols)
    /\ results' = SortByGapDesc(results)
    /\ response' = [status |-> 0, error |-> "",
                    body |-> [csv |-> SortByGapDesc(results),
                              matches_found |-> Len(results)]]
    /\ pc' = "done"
    /\ UNCHANGED <<entry, request, symbols, idx, log, history, clock, call, ret>>

Next ==
    \/ ApiScanReject
    \/ ApiScanStart
    \/ MainStart
    \/ ScanNext
    \/ ApiScanFinish
    \/ MainFinish

Spec == Init /\ [][Next]_vars

---------------------------------------------------------------------------
(* Functions under test: the inputs a caller can hand them                 *)

\* Variables a specification does not use keep these values.
Idle ==
    /\ request = <<>>
    /\ symbols = <<>>
    /\ idx = 0
    /\ results = <<>>
    /\ log = <<>>
    /\ response = <<>>
    /\ history = {}
    /\ clock = 0

Return(fn, value) ==
    /\ pc = "call"
    /\ entry = fn
    /\ ret' = value
    /\ pc' = "return"
    /\ UNCHANGED <<entry, request, symbols, idx, results, log, response, history, clock, call>>

\* --- calculate_signal_metrics on integer prices -------------------------
MaxPrice == 3

MetricsInputs ==
    [close_price : {Num(i) : i \in -MaxPrice..MaxPrice},
     tenkan_value : {Num(i) : i \in -MaxPrice..MaxPrice},
     kijun_value : {Num(i) : i \in -MaxPrice..MaxPrice}]

InitMetrics ==
    /\ Idle
    /\ pc = "call"
    /\ entry = "calculate_signal_metrics"
    /\ call \in MetricsInputs
    /\ ret = <<>>

ReturnMetrics ==
    Return("calculate_signal_metrics",
           calculate_signal_metrics(call.close_price, call.tenkan_value, call.kijun_value))

SpecMetrics == InitMetrics /\ [][ReturnMetrics]_vars

\* --- calculate_ichimoku on short series, any two windows ----------------
MaxBars == 3
MaxWindow == 3

Highs == {Num(1), Num(3), NaN}
Lows == {Num(0), Num(2)}

BarsOfLen(n) == [1..n -> {Bar(h, l, l) : h \in Highs, l \in Lows}]

IchimokuInputs ==
    { [dataframe |-> [raised |-> "", cols |-> c, bars |-> b],
       tenkan_period |-> tp, kijun_period |-> kp] :
        c \in {AllColumns, AllColumns \ {"High"}},
        b \in UNION {BarsOfLen(n) : n \in 0..MaxBars},
        tp \in 1..MaxWindow, kp \in 1..MaxWindow }

InitIchimoku ==
    /\ Idle
    /\ pc = "call"
    /\ entry = "calculate_ichimoku"
    /\ call \in IchimokuInputs
    /\ ret = <<>>

ReturnIchimoku ==
    Return("calculate_ichimoku",
           calculate_ichimoku(call.dataframe, call.tenkan_period, call.kijun_period))

SpecIchimoku == InitIchimoku /\ [][ReturnIchimoku]_vars

\* --- scan_symbol on fetched frames --------------------------------------
OldRanges ==
    { <<1000, 1000>>, <<1000, 900>>, <<1000, 940>>, <<1000, 942>>, <<1100, 1000>>,
      <<1030, 970>>, <<1000, -1000>>, <<1000, -3000>> }

RecentRanges == { <<Num(1000), Num(1000)>>, <<Num(970), Num(970)>>, <<NaN, Num(1000)>> }

Closes == { Num(1000), Num(1004), Num(1005), Num(996), Num(970), Num(0), NaN }

MinGaps == { Num(0), Num(MIN_GAP_PCT), Num(5), NaN }

SymbolFetches ==
    {FetchError} \cup
    { FrameOf(len, Num(o[1]), Num(o[2]), r[1], r[2], c, cols) :
        len \in {MIN_DATA_POINTS - 1, MIN_DATA_POINTS, MIN_DATA_POINTS + 1},
        o \in OldRanges, r \in RecentRanges, c \in Closes,
        cols \in {AllColumns, AllColumns \ {"High"}, AllColumns \ {"Close"}} }

InitSymbol ==
    /\ Idle
    /\ pc = "call"
    /\ entry = "scan_symbol"
    /\ call \in [symbol : {"A.NS"}, fetch : SymbolFetches, min_gap : MinGaps]
    /\ ret = <<>>

ReturnSymbol ==
    Return("scan_symbol", ScanOutcome(call.symbol, Download(call.fetch), call.min_gap))

SpecSymbol == InitSymbol /\ [][ReturnSymbol]_vars

---------------------------------------------------------------------------
(* Properties of the functions                                             *)

\* What scan_symbol evaluates for a frame it can evaluate.
Latest(dataframe) ==
    LET ich == calculate_ichimoku(dataframe, TENKAN_PERIOD, KIJUN_PERIOD)
        last == Len(dataframe.bars)
    IN  [close_price |-> dataframe.bars[last].Close,
         tenkan_value |-> ich.tenkan_sen[last],
         kijun_value |-> ich.kijun_sen[last]]

\* Enough bars, the three columns present, the three latest values defined.
Evaluable(dataframe) ==
    /\ dataframe.raised = ""
    /\ Len(dataframe.bars) >= MIN_DATA_POINTS
    /\ {"High", "Low", "Close"} \subseteq dataframe.cols
    /\ LET v == Latest(dataframe)
       IN  ~IsNaN(v.close_price) /\ ~IsNaN(v.tenkan_value) /\ ~IsNaN(v.kijun_value)

\* Evaluable, and neither denominator is zero.
Usable(dataframe) ==
    /\ Evaluable(dataframe)
    /\ ~IsZero(Latest(dataframe).close_price)
    /\ ~IsZero(Latest(dataframe).kijun_value)

Returned(fn) == pc = "return" /\ entry = fn

\* C1: for a usable series scan_symbol returns a match record if and only if
\* gap_percentage >= min_gap and proximity_percentage <= PRICE_NEAR_TENKAN_PCT
\* both hold; with one of them or neither it returns None, and never an error.
C1_MatchIffBoth ==
    Returned("scan_symbol") =>
        LET dataframe == Download(call.fetch)
        IN  Usable(dataframe) =>
            LET v == Latest(dataframe)
                gap == GapPercentage(v.tenkan_value, v.kijun_value)
                prox == DistanceFromTenkanPct(v.close_price, v.tenkan_value)
            IN  /\ ret.error = ""
                /\ (ret.ret # None) <=>
                     (FGe(gap, call.min_gap) /\ FLe(prox, PRICE_NEAR_TENKAN_PCT))
                /\ ret.ret # None => ret.ret[1] = call.symbol

\* C1 witness: a usable series whose gap passes and whose proximity fails
\* (exactly one condition holds) was scanned and returned None.
C1_Witness ==
    /\ Returned("scan_symbol")
    /\ Usable(Download(call.fetch))
    /\ LET v == Latest(Download(call.fetch))
       IN  /\ FGe(GapPercentage(v.tenkan_value, v.kijun_value), call.min_gap)
           /\ FGt(DistanceFromTenkanPct(v.close_price, v.tenkan_value), PRICE_NEAR_TENKAN_PCT)
    /\ ret.ret = None

\* C5 as stated: gap_percentage >= 0 and proximity_percentage >= 0 whenever
\* slow_value and close are non-zero.
C5_NonNegativeNonZero ==
    (Returned("calculate_signal_metrics") /\ call.kijun_value.n # 0 /\ call.close_price.n # 0) =>
        /\ ret.raised = ""
        /\ FGe(ret.gap_percentage, Num(0))
        /\ FGe(ret.distance_from_tenkan_pct, Num(0))

\* C5 amended: gap_percentage >= 0 and proximity_percentage >= 0 whenever
\* slow_value and close are positive.
C5_NonNegativePositive ==
    (Returned("calculate_signal_metrics") /\ call.kijun_value.n > 0 /\ call.close_price.n > 0) =>
        /\ ret.raised = ""
        /\ FGe(ret.gap_percentage, Num(0))
        /\ FGe(ret.distance_from_tenkan_pct, Num(0))

\* C5 witness: positive denominators, fast below slow and close below fast,
\* so both differences are negative before abs().
C5_Witness ==
    /\ Returned("calculate_signal_metrics")
    /\ call.kijun_value.n > 0 /\ call.close_price.n > 0
    /\ call.tenkan_value.n < call.kijun_value.n
    /\ call.close_price.n < call.tenkan_value.n
    /\ FGt(ret.gap_percentage, Num(0))

WindowDefined(bars, lo, hi) == \A j \in lo..hi : ~bars[j].High.nan /\ ~bars[j].Low.nan

WindowMidpoint(bars, lo, hi) ==
    LET hs == {bars[j].High.n : j \in lo..hi}
        ls == {bars[j].Low.n : j \in lo..hi}
        mx == CHOOSE h \in hs : \A x \in hs : x <= h
        mn == CHOOSE l \in ls : \A x \in ls : l <= x
    IN  Rat(mx + mn, 2)

LineOk(line, bars, window) ==
    Len(bars) >= window =>
        /\ Len(line) = Len(bars)
        /\ \A i \in 1..Len(bars) :
              /\ i < window => IsNaN(line[i])
              /\ (i >= window /\ WindowDefined(bars, i - window + 1, i)) =>
                    line[i] = WindowMidpoint(bars, i - window + 1, i)

\* C7: for a series of length L >= window each line is aligned 1:1 with the
\* series, undefined before position window-1 and from there on the midpoint
\* (max high + min low) / 2 of the last `window` bars; each line depends on
\* its own window only, whichever of the two windows is larger.  (Positions
\* are counted from 1 here, so position window-1 is index `window`.)
C7_RollingMidpoint ==
    (Returned("calculate_ichimoku") /\ ret.raised = "") =>
        /\ LineOk(ret.tenkan_sen, call.dataframe.bars, call.tenkan_period)
        /\ LineOk(ret.kijun_sen, call.dataframe.bars, call.kijun_period)

\* C7 witness: the fast window is larger than the slow one and both lines are
\* defined at the last bar of a full-length series.
C7_Witness ==
    /\ Returned("calculate_ichimoku")
    /\ ret.raised = ""
    /\ call.tenkan_period > call.kijun_period
    /\ Len(call.dataframe.bars) > call.tenkan_period
    /\ ~IsNaN(ret.tenkan_sen[Len(call.dataframe.bars)])
    /\ ~IsNaN(ret.kijun_sen[Len(call.dataframe.bars)])
    /\ IsNaN(ret.tenkan_sen[1])
    /\ ret.tenkan_sen[Len(call.dataframe.bars)] # ret.kijun_sen[Len(call.dataframe.bars)]

---------------------------------------------------------------------------
(* Properties of a run                                                     *)

\* The run produced its report (web) or its CSV (cli).
Reported == pc = "done" /\ (entry = "cli" \/ response.status = 200)

ReportRows == IF entry = "web" THEN response.body.scan.results ELSE response.body.csv

Occurrences(rows, row) == Len(SelectSeq(rows, LAMBDA r : r = row))

RowSet(rows) == {rows[i] : i \in DOMAIN rows}

\* The lists scan_symbol returned for the calls that raised nothing, in scan
\* order.
RECURSIVE MatchesOfOthers(_)
MatchesOfOthers(entries) ==
    IF entries = <<>> THEN <<>>
    ELSE LET e == Head(entries)
         IN  (IF e.error = "" /\ e.ret # None THEN <<e.ret>> ELSE <<>>)
             \o MatchesOfOthers(Tail(entries))

\* C2: a symbol whose fetch or computation fails never aborts the batch: a
\* started run ends with a report; the report's rows are exactly the matches
\* of the symbols that did not fail, the failed symbol contributes none, and
\* symbols_scanned is the length of the whole universe, failed symbols
\* included.
C2_FaultIsolation ==
    /\ \A i \in DOMAIN log : log[i].error # "" => log[i].ret = None
    /\ (pc = "done" /\ (entry = "cli" \/ request.timeframe # "")) =>
          /\ Reported
          /\ Len(log) = Len(symbols)
          /\ \A row \in RowSet(ReportRows) \cup RowSet(MatchesOfOthers(log)) :
                Occurrences(ReportRows, row) = Occurrences(MatchesOfOthers(log), row)
          /\ entry = "web" =>
                /\ response.body.scan.symbols_scanned = Len(symbols)
                /\ response.body.scan.matches_found = Len(MatchesOfOthers(log))

\* C2 witness: a report over three symbols, the second of which failed while
\* the first and the third matched.
C2_Witness ==
    /\ Reported
    /\ entry = "web"
    /\ Len(symbols) = 3
    /\ log[1].ret # None /\ log[2].error # "" /\ log[3].ret # None
    /\ response.body.scan.symbols_scanned = 3
    /\ response.body.scan.matches_found = 2

\* C3: every symbol of the universe is passed to scan_symbol once, in universe
\* order, whatever the earlier symbols did, and the report is built only after
\* the last one.
C3_NoEarlyTermination ==
    /\ Len(log) = idx
    /\ idx <= Len(symbols)
    /\ \A i \in DOMAIN log : log[i].symbol = symbols[i]
    /\ Reported => Len(log) = Len(symbols)

\* C3 witness: a report after three calls of which the first failed, the
\* second matched and the third did not match.
C3_Witness ==
    /\ Reported
    /\ Len(symbols) = 3
    /\ log[1].error # ""
    /\ log[2].ret # None
    /\ log[3].ret = None /\ log[3].error = ""

\* C4: the report's rows are in descending order of gap_percentage, and rows
\* with equal gap_percentage are in the order in which they were scanned.
C4_SortedStable ==
    Reported =>
        /\ \A i \in DOMAIN ReportRows : \A j \in DOMAIN ReportRows :
              i < j => FGe(GapOf(ReportRows[i]), GapOf(ReportRows[j]))
        /\ \A row \in RowSet(ReportRows) :
              SelectSeq(ReportRows, LAMBDA r : GapOf(r) = GapOf(row))
                = SelectSeq(MatchesOfOthers(log), LAMBDA r : GapOf(r) = GapOf(row))
        /\ Len(ReportRows) = Len(MatchesOfOthers(log))

\* C4 witness: three rows were collected, the smallest gap first and then two
\* different rows of one gap, so the sort moved rows and kept the tie in order.
C4_Witness ==
    /\ Reported
    /\ Len(ReportRows) = 3
    /\ LET collected == MatchesOfOthers(log)
       IN  /\ FLt(GapOf(collected[1]), GapOf(collected[2]))
           /\ GapOf(collected[2]) = GapOf(collected[3])
           /\ collected[2] # collected[3]
           /\ ReportRows = <<collected[2], collected[3], collected[1]>>

\* The configuration of a request body is invalid: no JSON object, a timeframe
\* outside TIMEFRAME_OPTIONS, or a min_gap that is not a number in [0, 100].
InvalidBody(body) ==
    \/ body.kind # "object"
    \/ body.timeframe \notin TIMEFRAME_OPTIONS \cup {"absent"}
    \/ body.min_gap.kind = "null"
    \/ body.min_gap.kind = "text" /\ body.min_gap.text \notin {"0", "3", "100"}
    \/ /\ body.min_gap.kind = "number"
       /\ \/ body.min_gap.value.nan
          \/ body.min_gap.value.n < 0
          \/ body.min_gap.value.n > 100 * body.min_gap.value.d

\* C8: a request with an invalid configuration is answered with an error
\* before a scan starts: run_scan is not called, no symbol is fetched and the
\* history is left as it was.
C8_InvalidRejected ==
    (entry = "web" /\ InvalidBody(request.body)) =>
        /\ pc = "done"
        /\ response.status \in {400, 500}
        /\ log = <<>>
        /\ symbols = <<>>
        /\ history \in InitialStores

\* C9: when the universe fetch fails (the request raises, the status is an
\* error, the body is not JSON, or the JSON lacks the expected 'data' shape)
\* the static fallback list is the universe, and the batch runs to completion
\* over exactly that list: symbols_scanned is the fallback list's length.
C9_FallbackUniverse ==
    (entry # "" /\ request.universe_error # "") =>
        LET fallback == IF entry = "web" THEN AppFallback ELSE MainFallback
        IN  /\ symbols = fallback
            /\ pc \in {"scanning", "done"}
            /\ pc = "done" =>
                  /\ Reported
                  /\ [i \in DOMAIN log |-> log[i].symbol] = fallback
                  /\ entry = "web" =>
                        response.body.scan.symbols_scanned = Len(AppFallback)

\* C9 witness: the index service answered without a 'data' key and the web
\* scan reported 10 symbols scanned.
C9_Witness ==
    /\ Reported
    /\ entry = "web"
    /\ request.universe_error = "ValueError"
    /\ response.body.scan.symbols_scanned = 10
    /\ Len(log) = 10

\* The fetches of the environment whose latest slow value or close is 0.
ZeroDenominatorFetches ==
    {f \in UNION {Market(y) : y \in Universe} :
        /\ Evaluable(Download(f))
        /\ \/ IsZero(Latest(Download(f)).close_price)
           \/ IsZero(Latest(Download(f)).kijun_value)}

\* C10: a symbol whose latest slow value or latest close is 0 gets no match
\* record, and the batch goes on: the run is still scanning or has ended with
\* its report after a call for every symbol.
C10_ZeroDenominatorNoMatch ==
    \A i \in DOMAIN log :
        log[i].fetch \in ZeroDenominatorFetches =>
            /\ log[i].ret = None
            /\ pc \in {"scanning", "done"}
            /\ pc = "done" => (Reported /\ Len(log) = Len(symbols))

\* C10 witness: a report over three symbols: the first had a slow value of 0,
\* the second a close of 0, and the third, scanned after them, matched.
C10_Witness ==
    /\ Reported
    /\ Len(symbols) = 3
    /\ log[1].fetch = Kijun0 /\ log[1].ret = None
    /\ log[2].fetch = Close0 /\ log[2].ret = None
    /\ {Kijun0, Close0} \subseteq ZeroDenominatorFetches
    /\ log[3].ret # None
    /\ Len(ReportRows) = 1

---------------------------------------------------------------------------
(* Insufficient data                                                       *)

\* The frame has all three columns and enough bars, and the close, the fast
\* or the slow value at its last bar is undefined.
UndefinedAtLatest(dataframe) ==
    /\ Len(dataframe.bars) >= MIN_DATA_POINTS
    /\ {"High", "Low", "Close"} \subseteq dataframe.cols
    /\ LET v == Latest(dataframe)
       IN  IsNaN(v.close_price) \/ IsNaN(v.tenkan_value) \/ IsNaN(v.kijun_value)

\* C11: when the fetched series has fewer than MIN_DATA_POINTS bars, or its
\* latest close, fast or slow value is undefined, scan_symbol returns None,
\* no exception was raised on the way, and the threshold test was not reached.
C11_InsufficientDataSoft ==
    (Returned("scan_symbol") /\ call.fetch.kind = "frame") =>
        LET dataframe == Download(call.fetch)
        IN  (Len(dataframe.bars) < MIN_DATA_POINTS \/ UndefinedAtLatest(dataframe)) =>
                /\ ret.ret = None
                /\ ret.error = ""
                /\ ~ret.evaluated

\* C11 witness: a series of MIN_DATA_POINTS - 1 bars, long enough for both
\* windows and with a gap and proximity that pass the thresholds, returned
\* None without an error.
C11_Witness ==
    /\ Returned("scan_symbol")
    /\ call.fetch.kind = "frame"
    /\ call.fetch.len = MIN_DATA_POINTS - 1
    /\ call.fetch.len >= KIJUN_PERIOD
    /\ call.fetch.cols = AllColumns
    /\ LET long == Download([call.fetch EXCEPT !.len = MIN_DATA_POINTS])
       IN  /\ Usable(long)
           /\ scan_symbol(call.symbol, long, call.min_gap) # None
    /\ ret.ret = None
    /\ ret.error = ""

---------------------------------------------------------------------------
(* Rounding                                                                *)

\* gap_pct as scan_symbol computes it for a fetch, before any rounding.
FullGap(fetch) ==
    LET v == Latest(Download(fetch))
    IN  GapPercentage(v.tenkan_value, v.kijun_value)

\* The numeric fields of every returned list are the 2-decimal roundings of
\* the latest close, fast value, slow value and gap.
RoundedFields ==
    \A i \in DOMAIN log :
        log[i].ret # None =>
            LET v == Latest(Download(log[i].fetch))
            IN  /\ log[i].ret[2] = Round2(v.close_price)
                /\ log[i].ret[3] = Round2(v.tenkan_value)
                /\ log[i].ret[4] = Round2(v.kijun_value)
                /\ log[i].ret[5] = Round2(FullGap(log[i].fetch))

\* A usable series matches exactly when its unrounded gap and proximity pass.
FullPrecisionMatch ==
    \A i \in DOMAIN log :
        Usable(Download(log[i].fetch)) =>
            LET v == Latest(Download(log[i].fetch))
            IN  (log[i].ret # None) <=>
                   /\ FGe(FullGap(log[i].fetch), request.min_gap)
                   /\ FLe(DistanceFromTenkanPct(v.close_price, v.tenkan_value),
                          PRICE_NEAR_TENKAN_PCT)

\* No row of the report stands before a row whose unrounded gap is larger.
FullPrecisionRanking ==
    Reported =>
        \A p \in DOMAIN ReportRows : \A q \in DOMAIN ReportRows :
            p < q =>
                \A i \in DOMAIN log : \A j \in DOMAIN log :
                    (log[i].ret = ReportRows[p] /\ log[j].ret = ReportRows[q]) =>
                        FGe(FullGap(log[i].fetch), FullGap(log[j].fetch))

\* C12: the numeric fields of a match record are the 2-decimal roundings of
\* close, fast, slow and gap; the threshold tests and the ranking of the
\* report use the unrounded values, so rounding changes neither whether a
\* symbol matches nor how two matches are ordered.
C12_RoundingAtBoundaryOnly ==
    /\ RoundedFields
    /\ FullPrecisionMatch
    /\ FullPrecisionRanking

---------------------------------------------------------------------------
(* The history store over a sequence of scans                              *)

\* Scans saved in one run of the server, and the seconds the run lasts.
MaxSaves == 4
MaxClock == 3

\* scan_result['id'] = timestamp
WithId(scan_result, timestamp) ==
    [timeframe |-> scan_result.timeframe,
     min_gap |-> scan_result.min_gap,
     scan_time |-> scan_result.scan_time,
     symbols_scanned |-> scan_result.symbols_scanned,
     matches_found |-> scan_result.matches_found,
     results |-> scan_result.results,
     id |-> timestamp]

\* GET /api/history/<scan_id>: the stored scan, or 404.
api_history_detail(store, scan_id) ==
    IF \E e \in store : e.id = scan_id
    THEN [status |-> 200, error |-> "",
          body |-> (CHOOSE e \in store : e.id = scan_id).scan]
    ELSE ErrorResponse(404, "Scan not found")

\* The directory is empty and nothing was saved yet; `log` records every
\* successful save: the id it returned and the scan it was handed.
InitHistory ==
    /\ Idle
    /\ pc = "serving"
    /\ entry = "history"
    /\ call = <<>>
    /\ ret = <<>>

\* A second passes on the wall clock (strftime("%Y%m%d_%H%M%S")).
HistoryTick ==
    /\ pc = "serving"
    /\ clock < MaxClock
    /\ clock' = clock + 1
    /\ UNCHANGED <<pc, entry, request, symbols, idx, results, log, response, history, call, ret>>

\* api_scan hands the report of a finished scan to save_scan_history.
HistorySave ==
    /\ pc = "serving"
    /\ Len(log) < MaxSaves
    /\ \E timeframe \in {"1h", "1d"}, writable \in BOOLEAN :
          LET scan_result == ScanReport(timeframe, Num(MIN_GAP_PCT), clock, AppFallback, <<>>)
              saved == save_scan_history(history, WithId(scan_result, clock), clock, writable)
          IN  /\ history' = saved.store
              /\ ret' = saved.id
              /\ log' = IF writable
                        THEN Append(log, [id |-> saved.id, scan |-> WithId(scan_result, clock)])
                        ELSE log
    /\ UNCHANGED <<pc, entry, request, symbols, idx, results, response, clock, call>>

\* GET /api/history/<scan_id>
HistoryDetail ==
    /\ pc = "serving"
    /\ \E scan_id \in 0..MaxClock :
          /\ call' = scan_id
          /\ response' = api_history_detail(history, scan_id)
    /\ UNCHANGED <<pc, entry, request, symbols, idx, results, log, history, clock, ret>>

NextHistory ==
    \/ HistoryTick
    \/ HistorySave
    \/ HistoryDetail

SpecHistory == InitHistory /\ [][NextHistory]_vars

Min(a, b) == IF a < b THEN a ELSE b

\* C13: after n successful saves the store holds min(n, MAX_HISTORY) scans:
\* each of the min(n, MAX_HISTORY) most recently saved scans is retrievable by
\* the id its save returned, and every older scan is gone.
C13_KeepsLastThree ==
    entry = "history" =>
        LET n == Len(log)
            kept == Min(n, MAX_HISTORY)
        IN  /\ Cardinality(history) = kept
            /\ \A k \in DOMAIN log :
                  IF k > n - kept
                  THEN /\ api_history_detail(history, log[k].id).status = 200
                       /\ api_history_detail(history, log[k].id).body = log[k].scan
                  ELSE [id |-> log[k].id, scan |-> log[k].scan] \notin history

---------------------------------------------------------------------------
(* Direction of the emitted records                                        *)

\* C14: while the gap threshold of the run is strictly positive, every list
\* scan_symbol returned, every collected result and every row of the report
\* is Bullish or Bearish; a Neutral record needs min_gap <= 0.
C14_NoNeutralAbovePositiveGap ==
    (entry \in {"web", "cli"} /\ FGt(request.min_gap, Num(0))) =>
        /\ \A i \in DOMAIN log :
              log[i].ret # None => log[i].ret[6] \in {"Bullish", "Bearish"}
        /\ \A i \in DOMAIN results : results[i][6] \in {"Bullish", "Bearish"}
        /\ Reported =>
              \A i \in DOMAIN ReportRows : ReportRows[i][6] \in {"Bullish", "Bearish"}

\* C14 witness: a report of a run with a positive threshold in which a symbol
\* whose fast and slow values are equal, and whose close is on the fast line,
\* was scanned and left out while another symbol matched.
C14_Witness ==
    /\ Reported
    /\ FGt(request.min_gap, Num(0))
    /\ \E i \in DOMAIN log :
          /\ log[i].fetch = Neutral0
          /\ Usable(Download(Neutral0))
          /\ Direction(Latest(Download(Neutral0)).tenkan_value,
                       Latest(Download(Neutral0)).kijun_value) = "Neutral"
          /\ log[i].ret = None
          /\ log[i].error = ""
    /\ Len(ReportRows) >= 1

===========================================================================
